---- MODULE Spec2Model ----
(***************************************************************************)
(* A model of CBasicKeyStore (src/src/keystore.cpp): the identity registry *)
(* with its bounded per-identity history, the HD seed slot, the redeem     *)
(* script map and the Sapling key chain maps.                              *)
(*                                                                         *)
(* Every std::map of the class is a TLA+ function whose DOMAIN is the set  *)
(* of keys present.  The class has three groups of state that no operation *)
(* crosses: mapIdentities (accessed without a lock), the members guarded   *)
(* by cs_KeyStore and the members guarded by cs_SpendingKeyStore.  Each    *)
(* group has its own specification; the variables of the other groups stay *)
(* at their initial value there.                                           *)
(*                                                                         *)
(* In those specifications a call is one step.  SpecIdentityConc,          *)
(* SpecSeedConc and SpecSaplingConc run calls of several threads step by   *)
(* step, a step being one map operation or one LOCK, and SpecNames covers  *)
(* the name hashing of CIdentity on its own.                               *)
(***************************************************************************)
EXTENDS Integers, Sequences, FiniteSets, TLC

VARIABLES
    mapIdentities,  \* CBasicKeyStore::mapIdentities : CIdentityID -> CIdentityWithHistory
    lastUpdate,     \* per identity ID, the height of the latest UpdateIdentity call on
                    \* its current history (-1: none yet); kept by SpecIncreasing only
    hdSeed,                         \* CBasicKeyStore::hdSeed
    mapSaplingSpendingKeys,         \* SaplingFullViewingKey -> SaplingExtendedSpendingKey
    mapSaplingFullViewingKeys,      \* SaplingIncomingViewingKey -> SaplingFullViewingKey
    mapSaplingIncomingViewingKeys,  \* SaplingPaymentAddress -> SaplingIncomingViewingKey
    seedAccepted,   \* the latest SetHDSeed call that returned true: whether there was one,
                    \* and the seed it was given
    mapScripts,     \* CBasicKeyStore::mapScripts : CScriptID -> CScript
    submitted,      \* per identity ID, the heights AddIdentity and UpdateIdentity were
                    \* called with on its current history; kept by SpecSubmitted only
    proc,           \* the threads of the concurrent specifications: where each is in
                    \* the member function it runs, with its arguments and locals
    lock,           \* cs_SpendingKeyStore: the thread that holds it and how many times
    lastCall        \* the call that produced the current state, with its result

identityVars == <<mapIdentities, lastUpdate>>
shieldedVars == <<hdSeed, mapSaplingSpendingKeys, mapSaplingFullViewingKeys,
                  mapSaplingIncomingViewingKeys, seedAccepted>>
saplingVars == <<mapSaplingSpendingKeys, mapSaplingFullViewingKeys,
                 mapSaplingIncomingViewingKeys>>
generalVars == <<mapScripts>>
auxVars == <<submitted, proc, lock>>
vars == <<identityVars, shieldedVars, generalVars, auxVars, lastCall>>

(***************************************************************************)
(* Bounds of the model.                                                    *)
(***************************************************************************)
MaxHeight == 2   \* block heights are 0..MaxHeight

Heights == 0..MaxHeight
\* the longest history AddUpdateIdentityAndHistory is handed: one entry per height
MaxRecLen == MaxHeight + 1

(***************************************************************************)
(* Hash primitives.  Hash (256 bit) and Hash160 (160 bit) are opaque and   *)
(* collision free here: a digest is the term that names its input.  A      *)
(* uint160 is a tuple, the null value the empty one.                       *)
(***************************************************************************)
NullID == <<>>
IsNull(u) == u = <<>>
Hash(bytes) == <<"Hash", bytes>>
Hash2(a, b) == <<"Hash", a, b>>
Hash160(bytes) == <<"Hash160", bytes>>

\* boost::algorithm::to_lower_copy, on the characters the model uses
LowerChar(c) == CASE c = "A" -> "a"
                  [] c = "B" -> "b"
                  [] OTHER -> c
to_lower_copy(s) == [i \in 1..Len(s) |-> LowerChar(s[i])]

(***************************************************************************)
(* CIdentity: its name (a sequence of characters) and its parent.  The     *)
(* names used here are single labels, so CleanName folds nothing into the  *)
(* parent and GetNameID is the hash of the lower-cased name.  GetNameID    *)
(* reads that name through a pointer into a destroyed temporary; the       *)
(* registry specifications take the outcome in which the read finds the    *)
(* name, and SpecNames takes the others as well.                           *)
(***************************************************************************)
IdentityNames == { <<"a">>, <<"A">>, <<"b">> }
Identities == [name : IdentityNames, parent : {NullID}]

\* CIdentity::GetNameID(const std::string &Name) const, with GetNameID() = GetNameID(name)
GetNameID(identity) ==
    LET idName == to_lower_copy(identity.name)
        idHash == IF IsNull(identity.parent)
                  THEN Hash(idName)
                  ELSE Hash2(identity.parent, Hash(idName))
    IN  Hash160(idHash)

IdentityIDs == { GetNameID(i) : i \in Identities }

(***************************************************************************)
(* std::map<uint32_t, CIdentity>: a sequence of (height, identity) entries *)
(* in the order of iteration, i.e. by ascending key.                       *)
(***************************************************************************)
Entry(h, identity) == [height |-> h, identity |-> identity]

HasHeight(ids, h) == \E i \in 1..Len(ids) : ids[i].height = h

\* std::map::insert: no effect when the key is present, else placed in key order
MapInsert(ids, h, identity) ==
    IF HasHeight(ids, h)
    THEN ids
    ELSE LET k == Cardinality({ i \in 1..Len(ids) : ids[i].height < h })
         IN  SubSeq(ids, 1, k) \o << Entry(h, identity) >> \o SubSeq(ids, k + 1, Len(ids))

\* ids.erase(ids.begin())
EraseBegin(ids) == Tail(ids)

StrictlyIncreasing(ids) ==
    \A i \in 1..Len(ids) - 1 : ids[i].height < ids[i + 1].height

\* UpdateIds with a fault: the two-entry branch inserts without evicting
UpdateIdsNoEvict(ids, identity, blockHeight) ==
    IF Len(ids) = 1
    THEN [ids |-> IF blockHeight # ids[1].height
                  THEN MapInsert(ids, blockHeight, identity) ELSE ids,
          ret |-> TRUE]
    ELSE IF blockHeight > ids[1].height
    THEN [ids |-> IF blockHeight # ids[Len(ids)].height
                  THEN MapInsert(ids, blockHeight, identity) ELSE ids,
          ret |-> TRUE]
    ELSE [ids |-> ids, ret |-> FALSE]

\* UpdateIds with a fault: a height equal to the lowest stored one is accepted
UpdateIdsFromLowest(ids, identity, blockHeight) ==
    IF Len(ids) = 1
    THEN [ids |-> IF blockHeight # ids[1].height
                  THEN MapInsert(ids, blockHeight, identity) ELSE ids,
          ret |-> TRUE]
    ELSE IF blockHeight >= ids[1].height
    THEN [ids |-> IF blockHeight # ids[Len(ids)].height
                  THEN MapInsert(EraseBegin(ids), blockHeight, identity) ELSE ids,
          ret |-> TRUE]
    ELSE [ids |-> ids, ret |-> FALSE]

\* UpdateIds with a fault: an update at the height of the single entry, or at the
\* highest height of a full history, replaces the identity stored at that height
UpdateIdsReplaceEqual(ids, identity, blockHeight) ==
    IF Len(ids) = 1
    THEN [ids |-> MapInsert(IF blockHeight = ids[1].height THEN << >> ELSE ids,
                            blockHeight, identity),
          ret |-> TRUE]
    ELSE IF blockHeight > ids[1].height
    THEN [ids |-> IF blockHeight # ids[Len(ids)].height
                  THEN MapInsert(EraseBegin(ids), blockHeight, identity)
                  ELSE MapInsert(SubSeq(ids, 1, Len(ids) - 1), blockHeight, identity),
          ret |-> TRUE]
    ELSE [ids |-> ids, ret |-> FALSE]

\* UpdateIds with a fault: a full history accepts only a height above its highest
UpdateIdsAboveHighestOnly(ids, identity, blockHeight) ==
    IF Len(ids) = 1
    THEN [ids |-> IF blockHeight # ids[1].height
                  THEN MapInsert(ids, blockHeight, identity) ELSE ids,
          ret |-> TRUE]
    ELSE IF blockHeight > ids[Len(ids)].height
    THEN [ids |-> MapInsert(EraseBegin(ids), blockHeight, identity), ret |-> TRUE]
    ELSE [ids |-> ids, ret |-> FALSE]

\* CIdentityWithHistory::UpdateIdentity: the new ids and the value returned
UpdateIds(ids, identity, blockHeight) ==
    IF Len(ids) = 1
    THEN [ids |-> IF blockHeight # ids[1].height
                  THEN MapInsert(ids, blockHeight, identity) ELSE ids,
          ret |-> TRUE]
    ELSE IF blockHeight > ids[1].height
    THEN [ids |-> IF blockHeight # ids[Len(ids)].height
                  THEN MapInsert(EraseBegin(ids), blockHeight, identity) ELSE ids,
          ret |-> TRUE]
    ELSE [ids |-> ids, ret |-> FALSE]

\* CIdentityWithHistory(VERSION_CURRENT, VALID, ids)
IdentityWithHistory(valid, ids) == [valid |-> valid, ids |-> ids]

\* mapIdentities[key] = value
MapPut(m, key, value) == [k \in DOMAIN m \cup {key} |-> IF k = key THEN value ELSE m[k]]
\* mapIdentities.erase(key)
MapErase(m, key) == [k \in DOMAIN m \ {key} |-> m[k]]

(***************************************************************************)
(* The histories AddUpdateIdentityAndHistory is called with: any map of up *)
(* to MaxRecLen entries, valid or not.  The entries of one record carry    *)
(* the same identity ID (the versions of one identity).                    *)
(***************************************************************************)
HistoryRecords ==
    { s \in UNION { [1..n -> [height : Heights, identity : Identities]] : n \in 0..MaxRecLen } :
        /\ StrictlyIncreasing(s)
        /\ \A i \in 1..Len(s) : GetNameID(s[i].identity) = GetNameID(s[1].identity) }

NoUpdateYet == 0 - 1

\* HDSeed: the raw seed bytes; a default-constructed HDSeed is empty and IsNull()
NullSeed == << >>
HDSeeds == { NullSeed, <<"s1">>, <<"s2">> }

\* a CCriticalSection nobody holds
Unlocked == [owner |-> "none", depth |-> 0]

\* the threads of the concurrent specifications, and the frame of a thread that has
\* not called anything yet
Threads == { "reader", "updater", "writer", "setter1", "setter2" }
NoCall == [op |-> "none", pc |-> "returned", ret |-> FALSE]

\* the members of a default-constructed CBasicKeyStore
InitStore ==
    /\ mapIdentities = << >>
    /\ lastUpdate = [id \in IdentityIDs |-> NoUpdateYet]
    /\ hdSeed = NullSeed
    /\ mapSaplingSpendingKeys = << >>
    /\ mapSaplingFullViewingKeys = << >>
    /\ mapSaplingIncomingViewingKeys = << >>
    /\ seedAccepted = [any |-> FALSE, seed |-> NullSeed]
    /\ mapScripts = << >>
    /\ lock = Unlocked
    /\ lastCall = [op |-> "init"]

Init ==
    /\ InitStore
    /\ submitted = [id \in IdentityIDs |-> {}]
    /\ proc = [t \in Threads |-> NoCall]

(***************************************************************************)
(* The identity registry.  Each ...Call operator is one member function:   *)
(* what it does to mapIdentities and what it returns (in lastCall).        *)
(***************************************************************************)
\* CBasicKeyStore::HaveIdentity
HaveIdentityCall(idID) ==
    /\ lastCall' = [op |-> "HaveIdentity", id |-> idID, ret |-> idID \in DOMAIN mapIdentities]
    /\ UNCHANGED mapIdentities

\* AddIdentityCall with a fault: an existing history is replaced
AddIdentityCallReplacing(identity, blockHeight) ==
    LET id == GetNameID(identity) IN
    /\ mapIdentities' = MapPut(mapIdentities, id,
            IdentityWithHistory(TRUE, << Entry(blockHeight, identity) >>))
    /\ lastCall' = [op |-> "AddIdentity", id |-> id, identity |-> identity,
                    height |-> blockHeight, ret |-> TRUE]

\* CBasicKeyStore::AddIdentity
AddIdentityCall(identity, blockHeight) ==
    LET id == GetNameID(identity) IN
    IF id \in DOMAIN mapIdentities
    THEN /\ lastCall' = [op |-> "AddIdentity", id |-> id, identity |-> identity,
                         height |-> blockHeight, ret |-> FALSE]
         /\ UNCHANGED mapIdentities
    ELSE /\ mapIdentities' = MapPut(mapIdentities, id,
                 IdentityWithHistory(TRUE, << Entry(blockHeight, identity) >>))
         /\ lastCall' = [op |-> "AddIdentity", id |-> id, identity |-> identity,
                         height |-> blockHeight, ret |-> TRUE]

\* CBasicKeyStore::UpdateIdentity; found: the ID had a history, size0: the entries it
\* held before the call, inner: what the history's UpdateIdentity returned
UpdateIdentityCall(identity, blockHeight) ==
    LET id == GetNameID(identity) IN
    IF id \notin DOMAIN mapIdentities
    THEN /\ lastCall' = [op |-> "UpdateIdentity", id |-> id, identity |-> identity,
                         height |-> blockHeight, found |-> FALSE, size0 |-> 0,
                         inner |-> FALSE, ret |-> FALSE]
         /\ UNCHANGED mapIdentities
    ELSE LET r == UpdateIds(mapIdentities[id].ids, identity, blockHeight) IN
         /\ mapIdentities' = [mapIdentities EXCEPT ![id].ids = r.ids]
         /\ lastCall' = [op |-> "UpdateIdentity", id |-> id, identity |-> identity,
                         height |-> blockHeight, found |-> TRUE,
                         size0 |-> Len(mapIdentities[id].ids), inner |-> r.ret,
                         ret |-> TRUE]

\* RemoveIdentityCall with a fault: the history is emptied and its map entry stays
RemoveIdentityCallClearing(idID) ==
    /\ mapIdentities' = [id \in DOMAIN mapIdentities |->
                             IF id = idID THEN IdentityWithHistory(TRUE, << >>)
                                          ELSE mapIdentities[id]]
    /\ lastCall' = [op |-> "RemoveIdentity", id |-> idID, ret |-> TRUE]

\* CBasicKeyStore::RemoveIdentity
RemoveIdentityCall(idID) ==
    /\ mapIdentities' = MapErase(mapIdentities, idID)
    /\ lastCall' = [op |-> "RemoveIdentity", id |-> idID, ret |-> TRUE]

\* CBasicKeyStore::AddUpdateIdentityAndHistory
AddUpdateIdentityAndHistoryCall(idWithHistory) ==
    IF idWithHistory.valid /\ Len(idWithHistory.ids) # 0
    THEN LET id == GetNameID(idWithHistory.ids[1].identity) IN
         /\ mapIdentities' = MapPut(mapIdentities, id, idWithHistory)
         /\ lastCall' = [op |-> "AddUpdateIdentityAndHistory", stored |-> TRUE,
                         id |-> id, size |-> Len(idWithHistory.ids), ret |-> TRUE]
    ELSE /\ lastCall' = [op |-> "AddUpdateIdentityAndHistory", stored |-> FALSE,
                         id |-> NullID, size |-> Len(idWithHistory.ids), ret |-> TRUE]
         /\ UNCHANGED mapIdentities

(***************************************************************************)
(* SpecIdentity: the registry under any sequence of calls.                 *)
(***************************************************************************)
HaveIdentity(idID) == HaveIdentityCall(idID) /\ UNCHANGED <<lastUpdate, shieldedVars, generalVars, auxVars>>
AddIdentity(identity, h) == AddIdentityCall(identity, h) /\ UNCHANGED <<lastUpdate, shieldedVars, generalVars, auxVars>>
UpdateIdentity(identity, h) == UpdateIdentityCall(identity, h) /\ UNCHANGED <<lastUpdate, shieldedVars, generalVars, auxVars>>
RemoveIdentity(idID) == RemoveIdentityCall(idID) /\ UNCHANGED <<lastUpdate, shieldedVars, generalVars, auxVars>>
AddUpdateIdentityAndHistory(idWithHistory) ==
    AddUpdateIdentityAndHistoryCall(idWithHistory) /\ UNCHANGED <<lastUpdate, shieldedVars, generalVars, auxVars>>

NextIdentity ==
    \/ \E identity \in Identities, h \in Heights : AddIdentity(identity, h)
    \/ \E identity \in Identities, h \in Heights : UpdateIdentity(identity, h)
    \/ \E id \in IdentityIDs : RemoveIdentity(id)
    \/ \E id \in IdentityIDs : HaveIdentity(id)
    \/ \E valid \in BOOLEAN, ids \in HistoryRecords :
           AddUpdateIdentityAndHistory(IdentityWithHistory(valid, ids))

SpecIdentity == Init /\ [][NextIdentity]_vars

(***************************************************************************)
(* SpecSubmitted: histories made by AddIdentity and updated at any heights.*)
(* submitted[id] collects the heights the calls on id's current history    *)
(* were given, accepted or not.                                            *)
(***************************************************************************)
SubAddIdentity(identity, h) ==
    /\ AddIdentityCall(identity, h)
    /\ submitted' = IF GetNameID(identity) \in DOMAIN mapIdentities
                    THEN submitted
                    ELSE [submitted EXCEPT ![GetNameID(identity)] = {h}]
    /\ UNCHANGED <<lastUpdate, shieldedVars, generalVars, proc, lock>>

SubUpdateIdentity(identity, h) ==
    /\ UpdateIdentityCall(identity, h)
    /\ submitted' = IF GetNameID(identity) \in DOMAIN mapIdentities
                    THEN [submitted EXCEPT ![GetNameID(identity)] = @ \cup {h}]
                    ELSE submitted
    /\ UNCHANGED <<lastUpdate, shieldedVars, generalVars, proc, lock>>

SubRemoveIdentity(idID) ==
    /\ RemoveIdentityCall(idID)
    /\ submitted' = [submitted EXCEPT ![idID] = {}]
    /\ UNCHANGED <<lastUpdate, shieldedVars, generalVars, proc, lock>>

NextSubmitted ==
    \/ \E identity \in Identities, h \in Heights : SubAddIdentity(identity, h)
    \/ \E identity \in Identities, h \in Heights : SubUpdateIdentity(identity, h)
    \/ \E id \in IdentityIDs : SubRemoveIdentity(id)

SpecSubmitted == Init /\ [][NextSubmitted]_vars

(***************************************************************************)
(* SpecIncreasing: histories made by AddIdentity and then updated at       *)
(* strictly increasing heights only.  lastUpdate[id] is the height of the  *)
(* latest update of id's history; an update is taken only above it.        *)
(***************************************************************************)
IncAddIdentity(identity, h) ==
    /\ AddIdentityCall(identity, h)
    /\ lastUpdate' = IF GetNameID(identity) \in DOMAIN mapIdentities
                     THEN lastUpdate
                     ELSE [lastUpdate EXCEPT ![GetNameID(identity)] = NoUpdateYet]
    /\ UNCHANGED <<shieldedVars, generalVars, auxVars>>

IncUpdateIdentity(identity, h) ==
    /\ h > lastUpdate[GetNameID(identity)]
    /\ UpdateIdentityCall(identity, h)
    /\ lastUpdate' = IF GetNameID(identity) \in DOMAIN mapIdentities
                     THEN [lastUpdate EXCEPT ![GetNameID(identity)] = h]
                     ELSE lastUpdate
    /\ UNCHANGED <<shieldedVars, generalVars, auxVars>>

IncRemoveIdentity(idID) ==
    /\ RemoveIdentityCall(idID)
    /\ lastUpdate' = [lastUpdate EXCEPT ![idID] = NoUpdateYet]
    /\ UNCHANGED <<shieldedVars, generalVars, auxVars>>

NextIncreasing ==
    \/ \E identity \in Identities, h \in Heights : IncAddIdentity(identity, h)
    \/ \E identity \in Identities, h \in Heights : IncUpdateIdentity(identity, h)
    \/ \E id \in IdentityIDs : IncRemoveIdentity(id)

SpecIncreasing == Init /\ [][NextIncreasing]_vars

(***************************************************************************)
(* The shielded domain (cs_SpendingKeyStore): the HD seed and the Sapling  *)
(* maps.  The key types are opaque values; a derived key is the term that  *)
(* names the key it was derived from.  Two extended spending keys that     *)
(* differ in their chain code alone share their full viewing key.          *)
(***************************************************************************)
SaplingExtendedSpendingKeys == [expsk : {"x1", "x2"}, chaincode : {"c1", "c2"}]
\* sk.expsk.full_viewing_key()
full_viewing_key(sk) == <<"fvk", sk.expsk>>
\* fvk.in_viewing_key()
in_viewing_key(fvk) == <<"ivk", fvk>>
SaplingFullViewingKeys == { full_viewing_key(sk) : sk \in SaplingExtendedSpendingKeys }
SaplingIncomingViewingKeys == { in_viewing_key(fvk) : fvk \in SaplingFullViewingKeys }
SaplingPaymentAddresses == { "zs1", "zs2" }

\* SetSeed with a fault: the seed is stored whether or not one is set
SetSeedAlways(seed0, seed) == [hdSeed |-> seed, ret |-> TRUE]

\* CBasicKeyStore::SetHDSeed on the seed slot: the slot after the call, and the result
SetSeed(seed0, seed) ==
    IF ~IsNull(seed0)
    THEN [hdSeed |-> seed0, ret |-> FALSE]
    ELSE [hdSeed |-> seed, ret |-> TRUE]

\* CBasicKeyStore::GetHDSeed: the result and seedOut (left as passed when false)
GetSeed(seed0) ==
    IF IsNull(seed0)
    THEN [ret |-> FALSE, seedOut |-> NullSeed]
    ELSE [ret |-> TRUE, seedOut |-> seed0]

\* The three Sapling maps as one value, with the result of the call made on them
SaplingMaps == [sks |-> mapSaplingSpendingKeys, fvks |-> mapSaplingFullViewingKeys,
                ivks |-> mapSaplingIncomingViewingKeys, ret |-> TRUE]

\* IncomingViewingKeyAdded with a fault: an address already in the map keeps its ivk
IncomingViewingKeyKept(st, ivk, addr) ==
    IF addr \in DOMAIN st.ivks
    THEN [st EXCEPT !.ret = TRUE]
    ELSE [st EXCEPT !.ivks = MapPut(@, addr, ivk), !.ret = TRUE]

\* CBasicKeyStore::AddSaplingIncomingViewingKey
IncomingViewingKeyAdded(st, ivk, addr) ==
    [st EXCEPT !.ivks = MapPut(@, addr, ivk), !.ret = TRUE]

\* CBasicKeyStore::AddSaplingFullViewingKey
FullViewingKeyAdded(st, fvk, defaultAddr) ==
    LET ivk == in_viewing_key(fvk)
    IN  IncomingViewingKeyAdded([st EXCEPT !.fvks = MapPut(@, ivk, fvk)], ivk, defaultAddr)

\* SpendingKeyAdded with a fault: the spending key is stored without its viewing keys
SpendingKeyAddedAlone(st, sk, defaultAddr) ==
    [st EXCEPT !.sks = MapPut(@, full_viewing_key(sk), sk), !.ret = TRUE]

\* CBasicKeyStore::AddSaplingSpendingKey
SpendingKeyAdded(st, sk, defaultAddr) ==
    LET fvk == full_viewing_key(sk)
        r == FullViewingKeyAdded(st, fvk, defaultAddr)
    IN  IF ~r.ret
        THEN [r EXCEPT !.ret = FALSE]
        ELSE [r EXCEPT !.sks = MapPut(@, fvk, sk), !.ret = TRUE]

\* map.find(key): whether it is there, and the value copied out
Find(m, key, none) ==
    IF key \in DOMAIN m THEN [ret |-> TRUE, out |-> m[key]] ELSE [ret |-> FALSE, out |-> none]

NoKey == << >>

\* CBasicKeyStore::GetSaplingIncomingViewingKey
GetSaplingIncomingViewingKey(st, addr) == Find(st.ivks, addr, NoKey)
\* CBasicKeyStore::GetSaplingFullViewingKey
GetSaplingFullViewingKey(st, ivk) == Find(st.fvks, ivk, NoKey)
\* CBasicKeyStore::GetSaplingSpendingKey (declared in keystore.h): lookup by fvk
GetSaplingSpendingKey(st, fvk) == Find(st.sks, fvk, NoKey)

\* CBasicKeyStore::GetSaplingExtendedSpendingKey: the && chain stops at the first miss
GetSaplingExtendedSpendingKey(st, addr) ==
    LET i == GetSaplingIncomingViewingKey(st, addr) IN
    IF ~i.ret THEN [ret |-> FALSE, out |-> NoKey]
    ELSE LET f == GetSaplingFullViewingKey(st, i.out) IN
         IF ~f.ret THEN [ret |-> FALSE, out |-> NoKey]
         ELSE GetSaplingSpendingKey(st, f.out)

(***************************************************************************)
(* SpecShielded: the calls of the shielded domain.  Each holds the         *)
(* recursive lock cs_SpendingKeyStore from its first statement to its      *)
(* return, nested calls included, so each is one step.                     *)
(***************************************************************************)
SetSaplingMaps(r) ==
    /\ mapSaplingSpendingKeys' = r.sks
    /\ mapSaplingFullViewingKeys' = r.fvks
    /\ mapSaplingIncomingViewingKeys' = r.ivks

\* CBasicKeyStore::SetHDSeed
SetHDSeed(seed) ==
    LET r == SetSeed(hdSeed, seed) IN
    /\ hdSeed' = r.hdSeed
    /\ seedAccepted' = IF r.ret THEN [any |-> TRUE, seed |-> seed] ELSE seedAccepted
    /\ lastCall' = [op |-> "SetHDSeed", seed |-> seed, ret |-> r.ret]
    /\ UNCHANGED <<saplingVars, identityVars, generalVars, auxVars>>

\* CBasicKeyStore::HaveHDSeed
HaveHDSeed ==
    /\ lastCall' = [op |-> "HaveHDSeed", ret |-> ~IsNull(hdSeed)]
    /\ UNCHANGED <<shieldedVars, identityVars, generalVars, auxVars>>

\* CBasicKeyStore::GetHDSeed
GetHDSeed ==
    /\ lastCall' = [op |-> "GetHDSeed", ret |-> GetSeed(hdSeed).ret,
                    seedOut |-> GetSeed(hdSeed).seedOut]
    /\ UNCHANGED <<shieldedVars, identityVars, generalVars, auxVars>>

\* CBasicKeyStore::AddSaplingSpendingKey; replaced: defaultAddr led to another ivk before
AddSaplingSpendingKey(sk, defaultAddr) ==
    LET r == SpendingKeyAdded(SaplingMaps, sk, defaultAddr) IN
    /\ SetSaplingMaps(r)
    /\ lastCall' = [op |-> "AddSaplingSpendingKey", sk |-> sk, addr |-> defaultAddr,
                    replaced |-> /\ defaultAddr \in DOMAIN mapSaplingIncomingViewingKeys
                                 /\ mapSaplingIncomingViewingKeys[defaultAddr]
                                        # in_viewing_key(full_viewing_key(sk)),
                    ret |-> r.ret]
    /\ UNCHANGED <<hdSeed, seedAccepted, identityVars, generalVars, auxVars>>

\* CBasicKeyStore::AddSaplingFullViewingKey
AddSaplingFullViewingKey(fvk, defaultAddr) ==
    LET r == FullViewingKeyAdded(SaplingMaps, fvk, defaultAddr) IN
    /\ SetSaplingMaps(r)
    /\ lastCall' = [op |-> "AddSaplingFullViewingKey", fvk |-> fvk, addr |-> defaultAddr,
                    ret |-> r.ret]
    /\ UNCHANGED <<hdSeed, seedAccepted, identityVars, generalVars, auxVars>>

\* CBasicKeyStore::AddSaplingIncomingViewingKey
AddSaplingIncomingViewingKey(ivk, addr) ==
    LET r == IncomingViewingKeyAdded(SaplingMaps, ivk, addr) IN
    /\ SetSaplingMaps(r)
    /\ lastCall' = [op |-> "AddSaplingIncomingViewingKey", ivk |-> ivk, addr |-> addr,
                    ret |-> r.ret]
    /\ UNCHANGED <<hdSeed, seedAccepted, identityVars, generalVars, auxVars>>

\* CBasicKeyStore::HaveSaplingFullViewingKey
HaveSaplingFullViewingKey(ivk) ==
    /\ lastCall' = [op |-> "HaveSaplingFullViewingKey", ivk |-> ivk,
                    ret |-> ivk \in DOMAIN mapSaplingFullViewingKeys]
    /\ UNCHANGED <<shieldedVars, identityVars, generalVars, auxVars>>

\* CBasicKeyStore::HaveSaplingIncomingViewingKey
HaveSaplingIncomingViewingKey(addr) ==
    /\ lastCall' = [op |-> "HaveSaplingIncomingViewingKey", addr |-> addr,
                    ret |-> addr \in DOMAIN mapSaplingIncomingViewingKeys]
    /\ UNCHANGED <<shieldedVars, identityVars, generalVars, auxVars>>

\* CBasicKeyStore::GetSaplingExtendedSpendingKey
GetSaplingExtendedSpendingKeyCall(addr) ==
    LET r == GetSaplingExtendedSpendingKey(SaplingMaps, addr) IN
    /\ lastCall' = [op |-> "GetSaplingExtendedSpendingKey", addr |-> addr,
                    ret |-> r.ret, out |-> r.out]
    /\ UNCHANGED <<shieldedVars, identityVars, generalVars, auxVars>>

NextShielded ==
    \/ \E seed \in HDSeeds : SetHDSeed(seed)
    \/ HaveHDSeed
    \/ GetHDSeed
    \/ \E sk \in SaplingExtendedSpendingKeys, addr \in SaplingPaymentAddresses :
           AddSaplingSpendingKey(sk, addr)
    \/ \E fvk \in SaplingFullViewingKeys, addr \in SaplingPaymentAddresses :
           AddSaplingFullViewingKey(fvk, addr)
    \/ \E ivk \in SaplingIncomingViewingKeys, addr \in SaplingPaymentAddresses :
           AddSaplingIncomingViewingKey(ivk, addr)
    \/ \E ivk \in SaplingIncomingViewingKeys : HaveSaplingFullViewingKey(ivk)
    \/ \E addr \in SaplingPaymentAddresses : HaveSaplingIncomingViewingKey(addr)
    \/ \E addr \in SaplingPaymentAddresses : GetSaplingExtendedSpendingKeyCall(addr)

SpecShielded == Init /\ [][NextShielded]_vars

(***************************************************************************)
(* The general domain (cs_KeyStore): the redeem script map.  A CScript is  *)
(* its size and what the script-condition decoder reads from it: whether   *)
(* it pays to a crypto-condition, whether the decoded COptCCParams p is    *)
(* valid, p.evalCode, and p.vData, whose first element decodes to a        *)
(* CIdentity (name, parent, IsValid()).                                    *)
(***************************************************************************)
MAX_SCRIPT_ELEMENT_SIZE == 520

ScriptSizes == (MAX_SCRIPT_ELEMENT_SIZE - 1)..(MAX_SCRIPT_ELEMENT_SIZE + 1)

DecodedIdentity(name, valid) == [name |-> name, parent |-> NullID, valid |-> valid]

CCScript(size, pValid, evalCode, vData) ==
    [size |-> size, isCC |-> TRUE, pValid |-> pValid, evalCode |-> evalCode, vData |-> vData]

Scripts ==
    \* scripts that are no crypto-condition
       { [size |-> n, isCC |-> FALSE, pValid |-> FALSE, evalCode |-> "EVAL_NONE",
          vData |-> << >>] : n \in ScriptSizes }
    \* identity-primary conditions of a well-formed identity
    \cup { CCScript(n, TRUE, "EVAL_IDENTITY_PRIMARY", << DecodedIdentity(name, TRUE) >>) :
             n \in ScriptSizes, name \in IdentityNames }
    \* conditions that miss one of the requirements
    \cup { CCScript(MAX_SCRIPT_ELEMENT_SIZE, FALSE, "EVAL_IDENTITY_PRIMARY",
                    << DecodedIdentity(<<"a">>, TRUE) >>),
           CCScript(MAX_SCRIPT_ELEMENT_SIZE, TRUE, "EVAL_IDENTITY_REVOKE",
                    << DecodedIdentity(<<"a">>, TRUE) >>),
           CCScript(MAX_SCRIPT_ELEMENT_SIZE, TRUE, "EVAL_IDENTITY_PRIMARY", << >>),
           CCScript(MAX_SCRIPT_ELEMENT_SIZE, TRUE, "EVAL_IDENTITY_PRIMARY",
                    << DecodedIdentity(<<"a">>, FALSE) >>) }

\* CScriptID(const CScript&): the 160 bit hash of the serialized script
CScriptIDOfScript(scr) == Hash160(<<"script", scr>>)
\* CScriptID(const uint160&)
CScriptIDOfHash(u) == u

\* ScriptOrIdentityID with a fault: always the script's own hash
ScriptIDOnly(scr) == CScriptIDOfScript(scr)

\* ScriptOrIdentityID
ScriptOrIdentityID(scr) ==
    IF /\ scr.isCC
       /\ scr.pValid
       /\ scr.evalCode = "EVAL_IDENTITY_PRIMARY"
       /\ Len(scr.vData) # 0
       /\ scr.vData[1].valid
    THEN CScriptIDOfHash(GetNameID(scr.vData[1]))
    ELSE CScriptIDOfScript(scr)

ScriptIDs == { ScriptOrIdentityID(scr) : scr \in Scripts }
                 \cup { CScriptIDOfScript(scr) : scr \in Scripts }

\* AddCScript with a fault: a script of MAX_SCRIPT_ELEMENT_SIZE bytes is refused too
AddCScriptOffByOne(redeemScript) ==
    IF redeemScript.size >= MAX_SCRIPT_ELEMENT_SIZE
    THEN /\ lastCall' = [op |-> "AddCScript", script |-> redeemScript, ret |-> FALSE]
         /\ UNCHANGED <<mapScripts, identityVars, shieldedVars, auxVars>>
    ELSE /\ mapScripts' = MapPut(mapScripts, ScriptOrIdentityID(redeemScript), redeemScript)
         /\ lastCall' = [op |-> "AddCScript", script |-> redeemScript, ret |-> TRUE]
         /\ UNCHANGED <<identityVars, shieldedVars, auxVars>>

\* CBasicKeyStore::AddCScript
AddCScript(redeemScript) ==
    IF redeemScript.size > MAX_SCRIPT_ELEMENT_SIZE
    THEN /\ lastCall' = [op |-> "AddCScript", script |-> redeemScript, ret |-> FALSE]
         /\ UNCHANGED <<mapScripts, identityVars, shieldedVars, auxVars>>
    ELSE /\ mapScripts' = MapPut(mapScripts, ScriptOrIdentityID(redeemScript), redeemScript)
         /\ lastCall' = [op |-> "AddCScript", script |-> redeemScript, ret |-> TRUE]
         /\ UNCHANGED <<identityVars, shieldedVars, auxVars>>

\* CBasicKeyStore::HaveCScript
HaveCScript(hash) ==
    /\ lastCall' = [op |-> "HaveCScript", hash |-> hash, ret |-> hash \in DOMAIN mapScripts]
    /\ UNCHANGED <<mapScripts, identityVars, shieldedVars, auxVars>>

NoScript == << >>

\* CBasicKeyStore::GetCScript
GetCScript(hash) ==
    LET r == Find(mapScripts, hash, NoScript) IN
    /\ lastCall' = [op |-> "GetCScript", hash |-> hash, ret |-> r.ret,
                    redeemScriptOut |-> r.out]
    /\ UNCHANGED <<mapScripts, identityVars, shieldedVars, auxVars>>

NextGeneral ==
    \/ \E scr \in Scripts : AddCScript(scr)
    \/ \E hash \in ScriptIDs : HaveCScript(hash)
    \/ \E hash \in ScriptIDs : GetCScript(hash)

SpecGeneral == Init /\ [][NextGeneral]_vars

(***************************************************************************)
(* The claims.                                                             *)
(***************************************************************************)
History(id) == mapIdentities[id].ids

\* C1: under SpecIncreasing (histories created by AddIdentity and updated at
\* strictly increasing heights), no stored history holds more than 2 entries and
\* the heights of every stored history are strictly increasing.
C1_IncreasingUpdatesKeepTwoSorted ==
    \A id \in DOMAIN mapIdentities :
        /\ Len(History(id)) <= 2
        /\ StrictlyIncreasing(History(id))

\* a third version arrived: two updates were applied and the first entry was evicted
C1_Witness ==
    /\ lastCall.op = "UpdateIdentity"
    /\ lastCall.inner
    /\ lastCall.height = 2
    /\ lastUpdate[lastCall.id] = 2
    /\ lastCall.size0 = 2
    /\ Len(History(lastCall.id)) = 2
    /\ History(lastCall.id)[1].height = 1
    /\ History(lastCall.id)[2] = Entry(2, lastCall.identity)

\* C2: an UpdateIdentity call on a history of exactly two entries, at a height less
\* than or equal to the lowest stored height, has the history's UpdateIdentity
\* return false and leaves the history as it was.
C2_LowHeightRejectedUnchanged ==
    [][ ( /\ lastCall'.op = "UpdateIdentity"
          /\ lastCall'.id \in DOMAIN mapIdentities
          /\ Len(History(lastCall'.id)) = 2
          /\ lastCall'.height <= History(lastCall'.id)[1].height )
        => ( /\ lastCall'.inner = FALSE
             /\ lastCall'.id \in DOMAIN mapIdentities'
             /\ mapIdentities'[lastCall'.id] = mapIdentities[lastCall'.id] ) ]_vars

\* an update at exactly the lowest of two stored heights, with another identity value
C2_Witness ==
    /\ lastCall.op = "UpdateIdentity"
    /\ lastCall.found
    /\ ~lastCall.inner
    /\ Len(History(lastCall.id)) = 2
    /\ lastCall.height = History(lastCall.id)[1].height
    /\ lastCall.identity # History(lastCall.id)[1].identity

\* C3: the registry's UpdateIdentity returns false and creates nothing when the
\* identity has no history, and otherwise returns what the history's UpdateIdentity
\* returned.
C3_UpdateReturnsInnerResult ==
    lastCall.op = "UpdateIdentity" =>
        IF lastCall.found
        THEN lastCall.ret = lastCall.inner
        ELSE lastCall.ret = FALSE /\ lastCall.id \notin DOMAIN mapIdentities

\* C4: every stored history holds at most two entries, whatever calls were made.
C4_AtMostTwoEntries ==
    \A id \in DOMAIN mapIdentities : Len(History(id)) <= 2

\* C10: AddIdentity for an ID that has a history returns false and changes nothing;
\* otherwise it returns true, the ID's history is the single entry (height, identity)
\* and the histories of the other IDs are as before.
C10_AddIdentityFreshOrRejected ==
    [][ lastCall'.op = "AddIdentity" =>
          IF lastCall'.id \in DOMAIN mapIdentities
          THEN /\ lastCall'.ret = FALSE
               /\ mapIdentities' = mapIdentities
          ELSE /\ lastCall'.ret = TRUE
               /\ lastCall'.id = GetNameID(lastCall'.identity)
               /\ DOMAIN mapIdentities' = DOMAIN mapIdentities \cup {lastCall'.id}
               /\ mapIdentities'[lastCall'.id].ids
                      = << Entry(lastCall'.height, lastCall'.identity) >>
               /\ \A other \in DOMAIN mapIdentities :
                      mapIdentities'[other] = mapIdentities[other] ]_vars

\* an AddIdentity refused for an ID whose history holds two other entries, while
\* another ID has a history too
C10_Witness ==
    /\ lastCall.op = "AddIdentity"
    /\ ~lastCall.ret
    /\ Cardinality(DOMAIN mapIdentities) = 2
    /\ Len(History(lastCall.id)) = 2
    /\ ~HasHeight(History(lastCall.id), lastCall.height)
    /\ \A i \in 1..2 : History(lastCall.id)[i].identity # lastCall.identity

\* C5 as claimed: whatever seed the latest SetHDSeed call that returned true was
\* given, a SetHDSeed call made after it returns false and GetHDSeed still returns
\* that seed.
C5_SecondSetRejected_AnySeed ==
    [][ (seedAccepted.any /\ lastCall'.op = "SetHDSeed")
        => ( /\ lastCall'.ret = FALSE
             /\ GetSeed(hdSeed').ret
             /\ GetSeed(hdSeed').seedOut = seedAccepted.seed ) ]_vars

\* C5, amended: once a SetHDSeed call given a non-null seed has returned true, a
\* SetHDSeed call made after it returns false, whatever seed it passes, and GetHDSeed
\* still returns the seed of the first call.
C5_SecondSetRejected ==
    [][ (seedAccepted.any /\ ~IsNull(seedAccepted.seed) /\ lastCall'.op = "SetHDSeed")
        => ( /\ lastCall'.ret = FALSE
             /\ GetSeed(hdSeed').ret
             /\ GetSeed(hdSeed').seedOut = seedAccepted.seed ) ]_vars

\* a second call with another non-null seed was refused and the first seed is kept
C5_Witness ==
    /\ lastCall.op = "SetHDSeed"
    /\ ~lastCall.ret
    /\ ~IsNull(lastCall.seed)
    /\ seedAccepted.any
    /\ seedAccepted.seed # lastCall.seed
    /\ hdSeed = seedAccepted.seed

C7_SpendingKeyHasViewingChain ==
    \A fvk \in DOMAIN mapSaplingSpendingKeys :
        in_viewing_key(fvk) \in DOMAIN mapSaplingFullViewingKeys

\* two spending keys are stored, the latest by the call just made
C7_Witness ==
    /\ lastCall.op = "AddSaplingSpendingKey"
    /\ lastCall.ret
    /\ Cardinality(DOMAIN mapSaplingSpendingKeys) = 2
    /\ mapSaplingSpendingKeys[full_viewing_key(lastCall.sk)] = lastCall.sk

\* what the claims call a script encoding a valid identity-primary condition
EncodesIdentityPrimary(scr) ==
    /\ scr.isCC
    /\ scr.pValid
    /\ scr.evalCode = "EVAL_IDENTITY_PRIMARY"
    /\ Len(scr.vData) > 0
    /\ scr.vData[1].valid

\* C8: AddCScript of a script within the size limit that encodes a valid
\* identity-primary condition for identity I returns true and stores the script under
\* CScriptID(I.GetNameID()): a lookup of that ID returns the script, and the map gains
\* no other key, so none under the script's own hash.
C8_IdentityScriptStoredUnderNameID ==
    [][ ( /\ lastCall'.op = "AddCScript"
          /\ EncodesIdentityPrimary(lastCall'.script)
          /\ lastCall'.script.size <= MAX_SCRIPT_ELEMENT_SIZE )
        => LET scr == lastCall'.script
               key == CScriptIDOfHash(GetNameID(scr.vData[1]))
           IN  /\ lastCall'.ret
               /\ Find(mapScripts', key, NoScript).ret
               /\ Find(mapScripts', key, NoScript).out = scr
               /\ key # CScriptIDOfScript(scr)
               /\ DOMAIN mapScripts' = DOMAIN mapScripts \cup {key}
               /\ (CScriptIDOfScript(scr) \in DOMAIN mapScripts')
                      = (CScriptIDOfScript(scr) \in DOMAIN mapScripts) ]_vars

\* the script of an identity named "A" is filed under the ID of "a", beside another
\* script, and nothing is filed under the script's own hash
C8_Witness ==
    /\ lastCall.op = "AddCScript"
    /\ lastCall.ret
    /\ EncodesIdentityPrimary(lastCall.script)
    /\ lastCall.script.vData[1].name = <<"A">>
    /\ lastCall.script.size = MAX_SCRIPT_ELEMENT_SIZE
    /\ mapScripts[GetNameID(DecodedIdentity(<<"a">>, TRUE))] = lastCall.script
    /\ CScriptIDOfScript(lastCall.script) \notin DOMAIN mapScripts
    /\ Cardinality(DOMAIN mapScripts) >= 2

\* C9: AddCScript of a script larger than MAX_SCRIPT_ELEMENT_SIZE returns false and
\* leaves the script map as it was; a script of exactly MAX_SCRIPT_ELEMENT_SIZE is
\* accepted and stored.
C9_OversizedScriptRejected ==
    [][ lastCall'.op = "AddCScript" =>
          /\ lastCall'.script.size > MAX_SCRIPT_ELEMENT_SIZE
                => (lastCall'.ret = FALSE /\ mapScripts' = mapScripts)
          /\ lastCall'.script.size = MAX_SCRIPT_ELEMENT_SIZE
                => ( /\ lastCall'.ret = TRUE
                     /\ \E key \in DOMAIN mapScripts' :
                            mapScripts'[key] = lastCall'.script ) ]_vars

\* an oversized script was refused whose key holds another script, which it would
\* have replaced
C9_Witness ==
    /\ lastCall.op = "AddCScript"
    /\ ~lastCall.ret
    /\ lastCall.script.size = MAX_SCRIPT_ELEMENT_SIZE + 1
    /\ ScriptOrIdentityID(lastCall.script) \in DOMAIN mapScripts
    /\ mapScripts[ScriptOrIdentityID(lastCall.script)] # lastCall.script

(***************************************************************************)
(* Name hashing: ParseSubNames, CIdentity::CleanName and the static        *)
(* CIdentity::GetNameID(Name, parent).  A name is a sequence of            *)
(* characters.                                                             *)
(*                                                                         *)
(* Both CleanName and GetNameID take c_str() of the temporary string that  *)
(* to_lower_copy returns; the temporary is destroyed at the end of that    *)
(* statement, so the bytes hashed are read through a dangling pointer.     *)
(* The read either still finds the lower-cased name or finds other bytes   *)
(* (Clobbered); which one is chosen anew at every read.                    *)
(***************************************************************************)
KOMODO_ASSETCHAIN_MAXLEN == 65

Rep(c, n) == [i \in 1..n |-> c]

InvalidChars == { "\\", "/", ":", "*", "?", "\"", "<", ">", "|" }
Separators == { ".", "@" }

\* boost::split(retNames, nameCopy, boost::is_any_of(".@")): adjacent separators are
\* not compressed, and a string without separator is one token
RECURSIVE Split(_)
Split(s) ==
    IF \A i \in 1..Len(s) : s[i] \notin Separators
    THEN << s >>
    ELSE LET k == CHOOSE i \in 1..Len(s) :
                      /\ s[i] \in Separators
                      /\ \A j \in 1..(i - 1) : s[j] \notin Separators
         IN  << SubSeq(s, 1, k - 1) >> \o Split(SubSeq(s, k + 1, Len(s)))

\* std::string(label, 0, KOMODO_ASSETCHAIN_MAXLEN - 1) when the label is longer
Truncated(label) ==
    IF Len(label) > KOMODO_ASSETCHAIN_MAXLEN - 1
    THEN SubSeq(label, 1, KOMODO_ASSETCHAIN_MAXLEN - 1)
    ELSE label

\* ParseSubNames
ParseSubNames(Name) ==
    LET nameCopy == [i \in 1..Len(Name) |->
                        IF Name[i] \in InvalidChars THEN "_" ELSE Name[i]]
        retNames == Split(nameCopy)
    IN  [i \in 1..Len(retNames) |-> Truncated(retNames[i])]

\* what a read through the dangling c_str() pointer finds
Clobbered == << "?" >>
DanglingCStr(str, intact) == IF intact THEN str ELSE Clobbered

\* the loop of CleanName from label i down to the second label; intact[i] tells what
\* the read of label i finds
RECURSIVE FoldParent(_, _, _, _)
FoldParent(subNames, i, Parent, intact) ==
    IF i < 2
    THEN Parent
    ELSE LET idName == DanglingCStr(to_lower_copy(subNames[i]), intact[i])
             idHash == IF IsNull(Parent)
                       THEN Hash(idName)
                       ELSE Hash2(Parent, Hash(idName))
         IN  FoldParent(subNames, i - 1, Hash160(idHash), intact)

\* CIdentity::CleanName: the name returned and Parent as it is left
CleanName(Name, Parent, intact) ==
    LET subNames == ParseSubNames(Name)
    IN  IF Len(subNames) = 0
        THEN [name |-> << >>, Parent |-> Parent]
        ELSE [name |-> subNames[1],
              Parent |-> FoldParent(subNames, Len(subNames), Parent, intact)]

\* CIdentity::GetNameID(const std::string &Name, const uint160 &parent); intact[1] tells
\* what the read of the lower-cased Name finds.  cleanName and newParent are computed
\* and not used.
GetNameIDOfName(Name, parent, intact) ==
    LET newParent == parent
        cleanName == CleanName(Name, newParent, intact)
        idName == DanglingCStr(to_lower_copy(Name), intact[1])
        idHash == IF IsNull(parent)
                  THEN Hash(idName)
                  ELSE Hash2(parent, Hash(idName))
    IN  [ret |-> Hash160(idHash), cleanName |-> cleanName.name,
         newParent |-> cleanName.Parent]

(***************************************************************************)
(* SpecNames: GetNameID called on names of one to three labels, some with  *)
(* a label longer than KOMODO_ASSETCHAIN_MAXLEN - 1 characters.            *)
(***************************************************************************)
MaxLabels == 3

LongLabel == Rep("a", KOMODO_ASSETCHAIN_MAXLEN - 1)

Names ==
    { << "a" >>, << "A" >>, << "b" >>,
      << "a", ".", "b" >>, << "A", ".", "B" >>, << "b", ".", "a" >>,
      << "a", "@", "b" >>, << "a", "/", "b" >>, << "a", "_", "b" >>,
      << "a", ".", "b", ".", "a" >>, << "a", ".", ".", "b" >>,
      LongLabel, LongLabel \o << "x" >>, LongLabel \o << "y" >>,
      << "b", "." >> \o LongLabel \o << "x" >>,
      << "b", "." >> \o LongLabel \o << "y" >> }

Parents == { NullID, Hash160(Hash(<< "p" >>)) }

GetNameIDCall(Name, parent, intact) ==
    LET r == GetNameIDOfName(Name, parent, intact) IN
    /\ lastCall' = [op |-> "GetNameID", name |-> Name, parent |-> parent,
                    intact |-> intact, labels |-> Len(ParseSubNames(Name)),
                    cleanName |-> r.cleanName, newParent |-> r.newParent, ret |-> r.ret]
    /\ UNCHANGED <<identityVars, shieldedVars, generalVars, auxVars>>

NextNames ==
    \E Name \in Names, parent \in Parents, intact \in [1..MaxLabels -> BOOLEAN] :
        GetNameIDCall(Name, parent, intact)

SpecNames == Init /\ [][NextNames]_vars

\* two names with the same labels up to the first KOMODO_ASSETCHAIN_MAXLEN - 1
\* characters of each, that differ beyond them
DifferOnlyBeyondCutoff(n1, n2) ==
    /\ n1 # n2
    /\ Len(n1) = Len(n2)
    /\ \A k \in 1..Len(n1) :
          n1[k] # n2[k] => {n1[k], n2[k]} \cap (Separators \cup InvalidChars) = {}
    /\ Len(Split(n1)) = Len(Split(n2))
    /\ \A i \in 1..Len(Split(n1)) : Truncated(Split(n1)[i]) = Truncated(Split(n2)[i])

\* every read of a to_lower_copy(...).c_str() pointer found the string
AllIntact(call) == \A i \in 1..MaxLabels : call.intact[i]

\* C11: two GetNameID calls with the same parent, on names that differ only beyond the
\* truncation point of a label, return the same ID (stated for the calls whose reads
\* of the lower-cased strings all found them).
C11_TruncatedNamesCollide ==
    [][ ( /\ lastCall.op = "GetNameID"
          /\ lastCall'.op = "GetNameID"
          /\ AllIntact(lastCall)
          /\ AllIntact(lastCall')
          /\ lastCall'.parent = lastCall.parent
          /\ DifferOnlyBeyondCutoff(lastCall.name, lastCall'.name) )
        => lastCall'.ret = lastCall.ret ]_vars

\* the parent the ancestor labels of Name fold into, starting from a null parent
AccumulatedParent(Name) ==
    CleanName(Name, NullID, [i \in 1..MaxLabels |-> TRUE]).Parent

\* C12: for a name of several labels and a null parent, GetNameID returns
\* Hash160(Hash(parent1 || Hash(lower-cased full name))), parent1 being the parent
\* accumulated from the ancestor labels (stated for the calls whose reads of the
\* lower-cased strings all found them).
C12_MultiLabelUsesAccumulatedParent ==
    ( /\ lastCall.op = "GetNameID"
      /\ AllIntact(lastCall)
      /\ IsNull(lastCall.parent)
      /\ lastCall.labels > 1 )
    => lastCall.ret = Hash160(Hash2(AccumulatedParent(lastCall.name),
                                    Hash(to_lower_copy(lastCall.name))))

\* the heights a history holds
StoredHeights(ids) == { ids[i].height : i \in 1..Len(ids) }

Max(S) == CHOOSE x \in S : \A y \in S : y <= x

\* the two largest elements of a set of heights, or all of it when it has fewer
TwoLargest(S) ==
    IF Cardinality(S) <= 2 THEN S ELSE { Max(S), Max(S \ {Max(S)}) }

StoredAreTwoLargestSubmitted ==
    \A id \in DOMAIN mapIdentities :
        StoredHeights(History(id)) = TwoLargest(submitted[id])

MaxHeightNeverDecreases ==
    \A id \in DOMAIN mapIdentities :
        (lastCall'.op = "UpdateIdentity" /\ lastCall'.id = id)
        => /\ id \in DOMAIN mapIdentities'
           /\ Max(StoredHeights(mapIdentities'[id].ids)) >= Max(StoredHeights(History(id)))

\* C15: a history made by AddIdentity and updated at arbitrary heights holds exactly
\* the two largest distinct heights submitted so far (the single one when only one was
\* submitted), and an update never lowers its highest stored height.
C15_WindowOfTwoLargestHeights ==
    []StoredAreTwoLargestSubmitted /\ [][MaxHeightNeverDecreases]_vars

\* an update at a height between the two stored ones has just evicted the lowest,
\* after three distinct heights were submitted
C15_Witness ==
    /\ lastCall.op = "UpdateIdentity"
    /\ lastCall.found
    /\ lastCall.size0 = 2
    /\ lastCall.inner
    /\ Cardinality(submitted[lastCall.id]) = 3
    /\ lastCall.height < Max(submitted[lastCall.id])
    /\ lastCall.height \in StoredHeights(History(lastCall.id))

\* C16: an UpdateIdentity call at the height of the single entry of a history, or at
\* the highest height of a two-entry history, leaves the history as it was: nothing is
\* evicted and the identity stored at that height is kept.
C16_EqualHeightLeavesHistory ==
    [][ ( /\ lastCall'.op = "UpdateIdentity"
          /\ lastCall'.id \in DOMAIN mapIdentities
          /\ Len(History(lastCall'.id)) \in {1, 2}
          /\ lastCall'.height = History(lastCall'.id)[Len(History(lastCall'.id))].height )
        => mapIdentities' = mapIdentities ]_vars

\* an update has just supplied another identity at the highest height of a two-entry
\* history, and the history still holds the identity it held at that height
C16_Witness ==
    /\ lastCall.op = "UpdateIdentity"
    /\ lastCall.found
    /\ lastCall.size0 = 2
    /\ Len(History(lastCall.id)) = 2
    /\ History(lastCall.id)[2].height = lastCall.height
    /\ History(lastCall.id)[2].identity # lastCall.identity

\* C17: AddSaplingIncomingViewingKey(ivk, addr) for an address already present in
\* mapSaplingIncomingViewingKeys leaves that map unchanged, the incoming viewing key
\* recorded first for addr being kept.
C17_ExistingAddressKeepsIvk ==
    [][ ( /\ lastCall'.op = "AddSaplingIncomingViewingKey"
          /\ lastCall'.addr \in DOMAIN mapSaplingIncomingViewingKeys )
        => mapSaplingIncomingViewingKeys' = mapSaplingIncomingViewingKeys ]_vars

\* C18: every history stored in mapIdentities holds at least one entry, whatever
\* AddIdentity, UpdateIdentity, RemoveIdentity and AddUpdateIdentityAndHistory calls
\* were made.
C18_StoredHistoriesNonEmpty ==
    \A id \in DOMAIN mapIdentities : Len(History(id)) >= 1

\* a record without entries has just been offered to AddUpdateIdentityAndHistory and
\* was not stored, the registry holding a history
C18_Witness ==
    /\ lastCall.op = "AddUpdateIdentityAndHistory"
    /\ lastCall.size = 0
    /\ ~lastCall.stored
    /\ DOMAIN mapIdentities # {}

(***************************************************************************)
(* SpecIdentityConc: one thread calling AddIdentity and UpdateIdentity and *)
(* one calling GetIdentityAndHistory on the same store.  None of these     *)
(* functions takes a lock, so the steps of a call (find, erase, insert,    *)
(* copy) interleave with the steps of the other thread.  proc[t] is the    *)
(* frame of the call thread t runs or has last returned from.  The reader's*)
(* copy of a history that is being modified is a data race; the model      *)
(* takes the outcomes in which the copy sees the map between two of the    *)
(* writer's operations.                                                    *)
(***************************************************************************)
Idle(t) == proc[t].pc = "returned"

Running(t, op, pc) == proc[t].op = op /\ proc[t].pc = pc

\* thread t returns ret from the call it runs
Returned(t, ret) == [proc EXCEPT ![t].pc = "returned", ![t].ret = ret]

\* CBasicKeyStore::AddIdentity: mapIdentities.insert is its only write
ConcAddIdentity(identity, h) ==
    /\ Idle("updater")
    /\ AddIdentityCall(identity, h)
    /\ proc' = MapPut(proc, "updater", [op |-> "AddIdentity", pc |-> "returned",
                                         ret |-> lastCall'.ret])
    /\ UNCHANGED <<lastUpdate, shieldedVars, generalVars, submitted, lock>>

\* CBasicKeyStore::UpdateIdentity is entered
UpdateBegin(identity, h) ==
    /\ Idle("updater")
    /\ proc' = MapPut(proc, "updater",
                      [op |-> "UpdateIdentity", pc |-> "find", identity |-> identity,
                       height |-> h, erased |-> FALSE, ret |-> FALSE])
    /\ UNCHANGED <<identityVars, shieldedVars, generalVars, submitted, lock, lastCall>>

\* mapIdentities.find and the tests of CIdentityWithHistory::UpdateIdentity, up to
\* its first write
UpdateFind ==
    /\ Running("updater", "UpdateIdentity", "find")
    /\ LET f == proc["updater"]
           id == GetNameID(f.identity)
       IN  IF id \notin DOMAIN mapIdentities
           THEN proc' = Returned("updater", FALSE)
           ELSE LET ids == mapIdentities[id].ids IN
                IF Len(ids) = 1
                THEN IF f.height # ids[1].height
                     THEN proc' = [proc EXCEPT !["updater"].pc = "insert"]
                     ELSE proc' = Returned("updater", TRUE)
                ELSE IF f.height > ids[1].height /\ f.height # ids[Len(ids)].height
                THEN proc' = [proc EXCEPT !["updater"].pc = "erase"]
                ELSE proc' = Returned("updater", TRUE)
    /\ UNCHANGED <<identityVars, shieldedVars, generalVars, submitted, lock, lastCall>>

\* ids.erase(ids.begin())
UpdateErase ==
    /\ Running("updater", "UpdateIdentity", "erase")
    /\ LET id == GetNameID(proc["updater"].identity) IN
       mapIdentities' = [mapIdentities EXCEPT ![id].ids = EraseBegin(@)]
    /\ proc' = [proc EXCEPT !["updater"].pc = "insert", !["updater"].erased = TRUE]
    /\ UNCHANGED <<lastUpdate, shieldedVars, generalVars, submitted, lock, lastCall>>

\* ids.insert(make_pair(blockHeight, identity)); return true
UpdateInsert ==
    /\ Running("updater", "UpdateIdentity", "insert")
    /\ LET f == proc["updater"]
           id == GetNameID(f.identity)
       IN  mapIdentities' = [mapIdentities EXCEPT
                                ![id].ids = MapInsert(@, f.height, f.identity)]
    /\ proc' = Returned("updater", TRUE)
    /\ UNCHANGED <<lastUpdate, shieldedVars, generalVars, submitted, lock, lastCall>>

\* the updater has erased the lowest entry of id's history and not yet inserted
EvictedNotInserted(id) ==
    /\ Running("updater", "UpdateIdentity", "insert")
    /\ proc["updater"].erased
    /\ GetNameID(proc["updater"].identity) = id

\* CBasicKeyStore::GetIdentityAndHistory is entered
GetIdentityAndHistoryBegin(idID) ==
    /\ Idle("reader")
    /\ proc' = MapPut(proc, "reader",
                      [op |-> "GetIdentityAndHistory", pc |-> "find", id |-> idID,
                       idWithHistory |-> << >>, halfUpdated |-> FALSE, ret |-> FALSE])
    /\ UNCHANGED <<identityVars, shieldedVars, generalVars, submitted, lock, lastCall>>

\* mapIdentities.find(idID)
GetIdentityAndHistoryFind ==
    /\ Running("reader", "GetIdentityAndHistory", "find")
    /\ proc' = IF proc["reader"].id \in DOMAIN mapIdentities
               THEN [proc EXCEPT !["reader"].pc = "copy"]
               ELSE Returned("reader", FALSE)
    /\ UNCHANGED <<identityVars, shieldedVars, generalVars, submitted, lock, lastCall>>

\* idWithHistory = it->second; return true.  halfUpdated: the copy was taken after
\* the updater's erase and before its insert
GetIdentityAndHistoryCopy ==
    /\ Running("reader", "GetIdentityAndHistory", "copy")
    /\ LET id == proc["reader"].id IN
       proc' = [proc EXCEPT !["reader"].pc = "returned",
                            !["reader"].ret = TRUE,
                            !["reader"].idWithHistory = mapIdentities[id].ids,
                            !["reader"].halfUpdated = EvictedNotInserted(id)]
    /\ UNCHANGED <<identityVars, shieldedVars, generalVars, submitted, lock, lastCall>>

NextIdentityConc ==
    \/ \E identity \in Identities, h \in Heights : ConcAddIdentity(identity, h)
    \/ \E identity \in Identities, h \in Heights : UpdateBegin(identity, h)
    \/ UpdateFind
    \/ UpdateErase
    \/ UpdateInsert
    \/ \E id \in IdentityIDs : GetIdentityAndHistoryBegin(id)
    \/ GetIdentityAndHistoryFind
    \/ GetIdentityAndHistoryCopy

SpecIdentityConc == Init /\ [][NextIdentityConc]_vars

\* C13: a GetIdentityAndHistory call running beside an UpdateIdentity call that
\* replaces the lowest entry of a two-entry history never returns the history with
\* the old lowest entry erased and the new entry not yet inserted.
C13_ReaderNeverSeesHalfUpdate ==
    ( /\ Running("reader", "GetIdentityAndHistory", "returned")
      /\ proc["reader"].ret )
    => ~proc["reader"].halfUpdated

(***************************************************************************)
(* LOCK(cs_SpendingKeyStore): a recursive critical section, held from the  *)
(* LOCK statement to the end of the function.                              *)
(***************************************************************************)
\* CanAcquire with a fault: the critical section excludes nobody
CanAcquireAlways(t) == TRUE

\* thread t can enter: nobody holds the critical section, or t itself does
CanAcquire(t) == lock.owner \in { "none", t }

Acquired(t) == [owner |-> t, depth |-> lock.depth + 1]

\* Release with a fault: the critical section does not count its nested entries, and
\* the first scope to end frees it
ReleaseAll(l) == Unlocked

\* the innermost LOCK of the owner goes out of scope
Release(l) == IF l.depth <= 1 THEN Unlocked ELSE [l EXCEPT !.depth = @ - 1]
Released == Release(lock)

(***************************************************************************)
(* SpecSeedConc: the setter threads each call SetHDSeed once, with a       *)
(* non-null seed, and the reader calls GetHDSeed again and again, on a     *)
(* store without a seed.                                                   *)
(***************************************************************************)
Setters == { "setter1", "setter2" }

\* the SetHDSeed calls that have returned true
Winners == { t \in Setters : Running(t, "SetHDSeed", "returned") /\ proc[t].ret }

\* CBasicKeyStore::SetHDSeed is entered
SetHDSeedBegin(t, seed) ==
    /\ proc[t] = NoCall
    /\ ~IsNull(seed)
    /\ proc' = MapPut(proc, t, [op |-> "SetHDSeed", pc |-> "LOCK", seed |-> seed,
                                ret |-> FALSE])
    /\ UNCHANGED <<identityVars, shieldedVars, generalVars, submitted, lock, lastCall>>

\* LOCK(cs_SpendingKeyStore)
SetHDSeedLock(t) ==
    /\ Running(t, "SetHDSeed", "LOCK")
    /\ CanAcquire(t)
    /\ lock' = Acquired(t)
    /\ proc' = [proc EXCEPT ![t].pc = "IsNull"]
    /\ UNCHANGED <<identityVars, shieldedVars, generalVars, submitted, lastCall>>

\* if (!hdSeed.IsNull()) return false;
SetHDSeedIsNull(t) ==
    /\ Running(t, "SetHDSeed", "IsNull")
    /\ IF ~IsNull(hdSeed)
       THEN proc' = Returned(t, FALSE) /\ lock' = Released
       ELSE proc' = [proc EXCEPT ![t].pc = "assign"] /\ UNCHANGED lock
    /\ UNCHANGED <<identityVars, shieldedVars, generalVars, submitted, lastCall>>

\* hdSeed = seed; return true;
SetHDSeedAssign(t) ==
    /\ Running(t, "SetHDSeed", "assign")
    /\ hdSeed' = proc[t].seed
    /\ seedAccepted' = [any |-> TRUE, seed |-> proc[t].seed]
    /\ proc' = Returned(t, TRUE)
    /\ lock' = Released
    /\ UNCHANGED <<saplingVars, identityVars, generalVars, submitted, lastCall>>

\* CBasicKeyStore::GetHDSeed is entered; afterAccepted: a SetHDSeed call had
\* returned true by then
GetHDSeedBegin ==
    /\ Idle("reader")
    /\ proc' = MapPut(proc, "reader",
                      [op |-> "GetHDSeed", pc |-> "LOCK", afterAccepted |-> Winners # {},
                       seedOut |-> NullSeed, ret |-> FALSE])
    /\ UNCHANGED <<identityVars, shieldedVars, generalVars, submitted, lock, lastCall>>

\* LOCK(cs_SpendingKeyStore)
GetHDSeedLock ==
    /\ Running("reader", "GetHDSeed", "LOCK")
    /\ CanAcquire("reader")
    /\ lock' = Acquired("reader")
    /\ proc' = [proc EXCEPT !["reader"].pc = "read"]
    /\ UNCHANGED <<identityVars, shieldedVars, generalVars, submitted, lastCall>>

\* the body of GetHDSeed, to its return
GetHDSeedRead ==
    /\ Running("reader", "GetHDSeed", "read")
    /\ proc' = [proc EXCEPT !["reader"].pc = "returned",
                            !["reader"].ret = GetSeed(hdSeed).ret,
                            !["reader"].seedOut = GetSeed(hdSeed).seedOut]
    /\ lock' = Released
    /\ UNCHANGED <<identityVars, shieldedVars, generalVars, submitted, lastCall>>

NextSeedConc ==
    \/ \E t \in Setters, seed \in HDSeeds : SetHDSeedBegin(t, seed)
    \/ \E t \in Setters : SetHDSeedLock(t)
    \/ \E t \in Setters : SetHDSeedIsNull(t)
    \/ \E t \in Setters : SetHDSeedAssign(t)
    \/ GetHDSeedBegin
    \/ GetHDSeedLock
    \/ GetHDSeedRead

SpecSeedConc == Init /\ [][NextSeedConc]_vars

\* at most one SetHDSeed call has returned true, exactly one once all have returned,
\* hdSeed is the seed of that call, and a GetHDSeed call entered after it returned
\* gives that seed
OneSetterWins ==
    /\ Cardinality(Winners) <= 1
    /\ (\A t \in Setters : Running(t, "SetHDSeed", "returned")) => Cardinality(Winners) = 1
    /\ \A w \in Winners :
          /\ hdSeed = proc[w].seed
          /\ ( Running("reader", "GetHDSeed", "returned") /\ proc["reader"].afterAccepted )
             => ( proc["reader"].ret /\ proc["reader"].seedOut = proc[w].seed )

\* a seed that is set stays as it is
SeedNeverChanges == ~IsNull(hdSeed) => hdSeed' = hdSeed

\* C19: under any interleaving of concurrent SetHDSeed calls with non-null seeds on a
\* store without a seed, exactly one call returns true, every later GetHDSeed returns
\* that call's seed, and the stored seed never changes once it is set.
C19_ExactlyOneSetterWins ==
    []OneSetterWins /\ [][SeedNeverChanges]_vars

\* two calls with different seeds ran against each other, the second to take the lock
\* returned false, and a GetHDSeed call entered afterwards has returned
C19_Witness ==
    /\ \A t \in Setters : Running(t, "SetHDSeed", "returned")
    /\ proc["setter1"].seed # proc["setter2"].seed
    /\ Cardinality(Winners) = 1
    /\ Running("reader", "GetHDSeed", "returned")
    /\ proc["reader"].afterAccepted
    /\ proc["reader"].ret

(***************************************************************************)
(* SpecSaplingConc: the writer calls AddSaplingSpendingKey again and again *)
(* and the reader calls HaveSaplingFullViewingKey and                      *)
(* GetSaplingExtendedSpendingKey.  AddSaplingSpendingKey holds             *)
(* cs_SpendingKeyStore from its first line to its return, through the      *)
(* nested AddSaplingFullViewingKey and AddSaplingIncomingViewingKey;       *)
(* GetSaplingExtendedSpendingKey takes no lock itself, each of its three   *)
(* lookups does.                                                           *)
(***************************************************************************)
Step(t, pc) == [proc EXCEPT ![t].pc = pc]

\* CBasicKeyStore::AddSaplingSpendingKey is entered
AddSaplingSpendingKeyBegin(sk, defaultAddr) ==
    /\ Idle("writer")
    /\ proc' = MapPut(proc, "writer",
                      [op |-> "AddSaplingSpendingKey", pc |-> "LOCK", sk |-> sk,
                       defaultAddr |-> defaultAddr, ret |-> FALSE])
    /\ UNCHANGED <<identityVars, shieldedVars, generalVars, submitted, lock, lastCall>>

\* the LOCK(cs_SpendingKeyStore) of AddSaplingSpendingKey, then the one of
\* AddSaplingFullViewingKey, then the one of AddSaplingIncomingViewingKey
AddSaplingSpendingKeyLock(pc, next) ==
    /\ Running("writer", "AddSaplingSpendingKey", pc)
    /\ CanAcquire("writer")
    /\ lock' = Acquired("writer")
    /\ proc' = Step("writer", next)
    /\ UNCHANGED <<identityVars, shieldedVars, generalVars, submitted, lastCall>>

\* mapSaplingFullViewingKeys[ivk] = fvk
WriteFullViewingKey ==
    /\ Running("writer", "AddSaplingSpendingKey", "fvk")
    /\ LET fvk == full_viewing_key(proc["writer"].sk) IN
       mapSaplingFullViewingKeys' =
           MapPut(mapSaplingFullViewingKeys, in_viewing_key(fvk), fvk)
    /\ proc' = Step("writer", "LOCK ivk")
    /\ UNCHANGED <<hdSeed, seedAccepted, mapSaplingSpendingKeys,
                   mapSaplingIncomingViewingKeys, identityVars, generalVars,
                   submitted, lock, lastCall>>

\* mapSaplingIncomingViewingKeys[addr] = ivk; return true, out of
\* AddSaplingIncomingViewingKey and out of AddSaplingFullViewingKey
WriteIncomingViewingKey ==
    /\ Running("writer", "AddSaplingSpendingKey", "ivk")
    /\ LET fvk == full_viewing_key(proc["writer"].sk) IN
       mapSaplingIncomingViewingKeys' =
           MapPut(mapSaplingIncomingViewingKeys, proc["writer"].defaultAddr,
                  in_viewing_key(fvk))
    /\ proc' = Step("writer", "sk")
    /\ lock' = Release(Release(lock))
    /\ UNCHANGED <<hdSeed, seedAccepted, mapSaplingSpendingKeys,
                   mapSaplingFullViewingKeys, identityVars, generalVars,
                   submitted, lastCall>>

\* mapSaplingSpendingKeys[fvk] = sk; return true
WriteSpendingKey ==
    /\ Running("writer", "AddSaplingSpendingKey", "sk")
    /\ mapSaplingSpendingKeys' =
           MapPut(mapSaplingSpendingKeys, full_viewing_key(proc["writer"].sk),
                  proc["writer"].sk)
    /\ proc' = Returned("writer", TRUE)
    /\ lock' = Released
    /\ UNCHANGED <<hdSeed, seedAccepted, mapSaplingFullViewingKeys,
                   mapSaplingIncomingViewingKeys, identityVars, generalVars,
                   submitted, lastCall>>

\* the writer has registered the full viewing key of its sk and not yet stored sk
RegisteredNotStored ==
    /\ proc["writer"].op = "AddSaplingSpendingKey"
    /\ proc["writer"].pc \in { "LOCK ivk", "ivk", "sk" }

\* CBasicKeyStore::HaveSaplingFullViewingKey is entered
HaveSaplingFullViewingKeyBegin(ivk) ==
    /\ Idle("reader")
    /\ proc' = MapPut(proc, "reader",
                      [op |-> "HaveSaplingFullViewingKey", pc |-> "LOCK", ivk |-> ivk,
                       ret |-> FALSE])
    /\ UNCHANGED <<identityVars, shieldedVars, generalVars, submitted, lock, lastCall>>

\* CBasicKeyStore::GetSaplingExtendedSpendingKey is entered; fvkFound: its
\* GetSaplingFullViewingKey lookup has found a key
GetSaplingExtendedSpendingKeyBegin(addr) ==
    /\ Idle("reader")
    /\ proc' = MapPut(proc, "reader",
                      [op |-> "GetSaplingExtendedSpendingKey", pc |-> "LOCK", addr |-> addr,
                       ivk |-> NoKey, fvk |-> NoKey, fvkFound |-> FALSE,
                       extskOut |-> NoKey, ret |-> FALSE])
    /\ UNCHANGED <<identityVars, shieldedVars, generalVars, submitted, lock, lastCall>>

\* the LOCK(cs_SpendingKeyStore) of the accessor the reader is in
ReaderLock(pc, next) ==
    /\ proc["reader"].op \in { "HaveSaplingFullViewingKey", "GetSaplingExtendedSpendingKey" }
    /\ proc["reader"].pc = pc
    /\ CanAcquire("reader")
    /\ lock' = Acquired("reader")
    /\ proc' = Step("reader", next)
    /\ UNCHANGED <<identityVars, shieldedVars, generalVars, submitted, lastCall>>

\* return mapSaplingFullViewingKeys.count(ivk) > 0
HaveSaplingFullViewingKeyRead ==
    /\ Running("reader", "HaveSaplingFullViewingKey", "read")
    /\ proc' = Returned("reader", proc["reader"].ivk \in DOMAIN mapSaplingFullViewingKeys)
    /\ lock' = Released
    /\ UNCHANGED <<identityVars, shieldedVars, generalVars, submitted, lastCall>>

\* GetSaplingIncomingViewingKey(addr, ivk): the first lookup of the chain
LookupIncomingViewingKey ==
    /\ Running("reader", "GetSaplingExtendedSpendingKey", "read")
    /\ LET i == GetSaplingIncomingViewingKey(SaplingMaps, proc["reader"].addr) IN
       proc' = IF ~i.ret
               THEN Returned("reader", FALSE)
               ELSE [proc EXCEPT !["reader"].pc = "LOCK fvk", !["reader"].ivk = i.out]
    /\ lock' = Released
    /\ UNCHANGED <<identityVars, shieldedVars, generalVars, submitted, lastCall>>

\* GetSaplingFullViewingKey(ivk, fvk): the second lookup
LookupFullViewingKey ==
    /\ Running("reader", "GetSaplingExtendedSpendingKey", "read fvk")
    /\ LET f == GetSaplingFullViewingKey(SaplingMaps, proc["reader"].ivk) IN
       proc' = IF ~f.ret
               THEN Returned("reader", FALSE)
               ELSE [proc EXCEPT !["reader"].pc = "LOCK sk", !["reader"].fvk = f.out,
                                 !["reader"].fvkFound = TRUE]
    /\ lock' = Released
    /\ UNCHANGED <<identityVars, shieldedVars, generalVars, submitted, lastCall>>

\* GetSaplingSpendingKey(fvk, extskOut): the third lookup
LookupSpendingKey ==
    /\ Running("reader", "GetSaplingExtendedSpendingKey", "read sk")
    /\ LET s == GetSaplingSpendingKey(SaplingMaps, proc["reader"].fvk) IN
       proc' = [proc EXCEPT !["reader"].pc = "returned", !["reader"].extskOut = s.out,
                            !["reader"].ret = s.ret]
    /\ lock' = Released
    /\ UNCHANGED <<identityVars, shieldedVars, generalVars, submitted, lastCall>>

NextSaplingConc ==
    \/ \E sk \in SaplingExtendedSpendingKeys, addr \in SaplingPaymentAddresses :
           AddSaplingSpendingKeyBegin(sk, addr)
    \/ AddSaplingSpendingKeyLock("LOCK", "LOCK fvk")
    \/ AddSaplingSpendingKeyLock("LOCK fvk", "fvk")
    \/ WriteFullViewingKey
    \/ AddSaplingSpendingKeyLock("LOCK ivk", "ivk")
    \/ WriteIncomingViewingKey
    \/ WriteSpendingKey
    \/ \E ivk \in SaplingIncomingViewingKeys : HaveSaplingFullViewingKeyBegin(ivk)
    \/ \E addr \in SaplingPaymentAddresses : GetSaplingExtendedSpendingKeyBegin(addr)
    \/ ReaderLock("LOCK", "read")
    \/ ReaderLock("LOCK fvk", "read fvk")
    \/ ReaderLock("LOCK sk", "read sk")
    \/ HaveSaplingFullViewingKeyRead
    \/ LookupIncomingViewingKey
    \/ LookupFullViewingKey
    \/ LookupSpendingKey

SpecSaplingConc == Init /\ [][NextSaplingConc]_vars

\* the reader is inside the critical section of an accessor
ReaderInside == proc["reader"].pc \in { "read", "read fvk", "read sk" }

\* C14 as the specification states it: while AddSaplingSpendingKey has registered the
\* full viewing key of sk and not yet stored sk, a reader can enter an accessor of the
\* shielded domain and so observe that state.
C14_ReaderCanEnterBetweenWrites ==
    RegisteredNotStored => CanAcquire("reader")

\* C14, as the code has it: no reader is inside an accessor while AddSaplingSpendingKey
\* is between registering the full viewing key and storing the spending key, and a
\* GetSaplingExtendedSpendingKey call that found a full viewing key finds the spending
\* key stored under it.
C14_ReaderNeverSeesViewingKeyWithoutSpendingKey ==
    /\ ~(RegisteredNotStored /\ ReaderInside)
    /\ ( Running("reader", "GetSaplingExtendedSpendingKey", "returned")
         /\ proc["reader"].fvkFound )
       => proc["reader"].ret

\* the reader waits at the LOCK of an accessor while the writer holds the critical
\* section, the full viewing key registered and the spending key not yet stored
C14_Witness ==
    /\ RegisteredNotStored
    /\ full_viewing_key(proc["writer"].sk) \notin DOMAIN mapSaplingSpendingKeys
    /\ proc["reader"].pc \in { "LOCK", "LOCK fvk", "LOCK sk" }
    /\ proc["reader"].op \in { "HaveSaplingFullViewingKey", "GetSaplingExtendedSpendingKey" }

====
